---- MODULE Spec2Model ----
(***************************************************************************)
(* A model of the web-forms scripts: the declarative field binder          *)
(* (FormFieldManager and its inline copy), the phone wiring, the country   *)
(* list population and the submit handler, in the three variants of the    *)
(* main script:                                                            *)
(*   "class"  src/form-functionality.js                                    *)
(*   "fetch"  src/unnamed/part_001                                         *)
(*   "retry"  src/unnamed/part_002                                         *)
(* A string is a sequence of one-character strings.  The page (elements,   *)
(* their data-attributes, the forms) is chosen by Init; the actions are    *)
(* the DOMContentLoaded handler and the DOM events the listeners react to. *)
(***************************************************************************)
EXTENDS Integers, Sequences, FiniteSets, TLC

\* ------------------------------------------------------------------ bounds

\* Longest string a user types into a field.
MaxLen == 2
\* Largest data-minlength / data-maxlength the pages carry.
MaxN == 2
\* Longest country list.
MaxCountries == 3

\* ----------------------------------------------------------------- strings

Space == " "
Digit == "1"
Paren == "("

\* String.prototype.toUpperCase / toLowerCase, one character.
UpChar(c) == IF c = "a" THEN "A" ELSE c

LowChar(c) == IF c = "A" THEN "a" ELSE c

toUpperCase(s) == [i \in 1..Len(s) |-> UpChar(s[i])]

toLowerCase(s) == [i \in 1..Len(s) |-> LowChar(s[i])]

\* String.prototype.slice(0, n) for n >= 0.
slice0(s, n) == IF Len(s) > n THEN SubSeq(s, 1, n) ELSE s

\* String.prototype.slice(1).
slice1(s) == IF Len(s) > 1 THEN SubSeq(s, 2, Len(s)) ELSE <<>>

\* String.prototype.charAt(0): the empty string when there is no character.
charAt0(s) == IF Len(s) > 0 THEN <<s[1]>> ELSE <<>>

RECURSIVE trimStart(_)
trimStart(s) == IF Len(s) > 0 /\ s[1] = Space THEN trimStart(Tail(s)) ELSE s

RECURSIVE trimEnd(_)
trimEnd(s) ==
    IF Len(s) > 0 /\ s[Len(s)] = Space THEN trimEnd(SubSeq(s, 1, Len(s) - 1)) ELSE s

\* String.prototype.trim.
trim(s) == trimEnd(trimStart(s))

\* value.replace(/\D/g, ''): the digits of s, in order.
RECURSIVE digitsOf(_)
digitsOf(s) ==
    IF s = <<>> THEN <<>>
    ELSE IF Head(s) = Digit THEN <<Digit>> \o digitsOf(Tail(s))
    ELSE digitsOf(Tail(s))

\* All strings over alphabet A of length at most n.
RECURSIVE StringsUpTo(_, _)
StringsUpTo(A, n) ==
    IF n = 0 THEN {<<>>}
    ELSE LET S == StringsUpTo(A, n - 1)
         IN  S \cup {Append(s, c) : s \in {t \in S : Len(t) = n - 1}, c \in A}

\* -------------------------------------------------------------- attributes

\* element.dataset.x of an attribute that is not on the element (undefined).
NoAttr == "<undefined>"
\* A numeric attribute that is not on the element.
NoNum == -1
\* document.querySelector's result when nothing matches.
Null == "<null>"

\* JavaScript truthiness of a dataset string: undefined and "" are falsy.
Truthy(a) == a # NoAttr /\ a # ""

\* The CSS attribute selector [data-x]: the attribute is present.
HasAttr(a) == a # NoAttr

\* Truthiness of a numeric dataset string: any digit string, "0" too, is truthy.
TruthyNum(n) == n # NoNum

Elems == {"e1", "e2"}
\* Document order, the order of querySelectorAll.
DocOrder == <<"e1", "e2">>

\* document.querySelector of an id selector.
querySelector(sel) ==
    IF sel = "#e1" THEN "e1" ELSE IF sel = "#e2" THEN "e2" ELSE Null

\* An element with no recognized attribute.
Plain ==
    [type |-> "text", form |-> 0,
     required |-> NoAttr, trim |-> NoAttr, uppercase |-> NoAttr,
     lowercase |-> NoAttr, sentenceCase |-> NoAttr,
     copyFrom |-> NoAttr, disabledIf |-> NoAttr, readonlyIf |-> NoAttr,
     showIf |-> <<>>,
     minlength |-> NoNum, maxlength |-> NoNum, debounce |-> NoNum,
     validate |-> NoAttr, phoneCountryRef |-> NoAttr, countryCode |-> NoAttr,
     formCase |-> NoAttr, customAction |-> NoAttr, parent |-> Null]

\* An element's properties as the page is parsed.  dirty is the browser's
\* note that the user has edited the value since the last change event.
Fresh ==
    [value |-> <<>>, dirty |-> FALSE, checked |-> FALSE, valid |-> FALSE,
     invalid |-> FALSE, disabled |-> FALSE, readOnly |-> FALSE, display |-> "",
     validity |-> ""]

VARIABLES
    variant,    \* which script the page loads: "class", "fetch" or "retry"
    libs,       \* the window globals among MultiStep, TomSelect, libphonenumber
    attrs,      \* element -> its type, form and data-attributes
    dom,        \* element -> value, checked, classes, disabled, readOnly, display
    listeners,  \* element -> the listeners added to it, by event, in order
    timer,      \* element -> the number of its debounce timeouts pending
    submitForm, \* the form the submit listener is on (0: none)
    countryList,\* the external country list (window.countryList, or the JSON)
    options,    \* element -> the option values of a select, in order
    retry,      \* the attempts of the retry variant's population so far, whether
                \* one succeeded, and the delay of the pending one (0: none)
    phase,      \* where the DOMContentLoaded handler is
    last,       \* the last event dispatched, and what it found
    handlers    \* the forms controller's registry: action name -> handler

vars ==
    <<variant, libs, attrs, dom, listeners, timer, submitForm, countryList,
      options, retry, phase, last, handlers>>

\* ----------------------------------------------------------- the listeners

\* A listener: what addEventListener was given, with the variables its closure
\* holds (the field, the referenced element, the property or literal, the
\* debounce delay read when it was bound).
Listener(kind, target, ref, prop, val, ms) ==
    [kind |-> kind, target |-> target, ref |-> ref, prop |-> prop, val |-> val, ms |-> ms]

NoListeners == [blur |-> <<>>, input |-> <<>>, change |-> <<>>]

\* What the phone library answers during one event: whether AsYouType /
\* formatNational add formatting characters, and what
\* parsePhoneNumberFromString returns.
LibAnswers == [fmt : BOOLEAN, parsed : {"undefined", "invalid", "valid"}]

\* new AsYouType(cc).input(digits), formatNational(): the digits, formatted.
formatted(digits, o) ==
    IF o.fmt /\ digits # <<>> THEN <<Paren>> \o digits ELSE digits

\* parsePhoneNumberFromString(digits, cc): nothing to parse in no digits.
parsePhoneNumberFromString(digits, o) ==
    IF digits = <<>> THEN "undefined" ELSE o.parsed

\* +field.dataset.x || dflt: an absent attribute is NaN, and NaN and 0 are falsy.
NumberOr(n, dflt) == IF n = NoNum \/ n = 0 THEN dflt ELSE n

\* A value no length exceeds.
Infinity == 1000

\* validateLength (runLive in the fetch variant): truncate to data-maxlength,
\* which is read when it runs.
validateLength(st, f) ==
    IF TruthyNum(attrs[f].maxlength) /\ Len(st.dom[f].value) > attrs[f].maxlength
    THEN [st EXCEPT !.dom[f].value = slice0(@, attrs[f].maxlength)]
    ELSE st

\* The input listener reading data-debounce when the event is handled.
lengthInputLive(st, l) ==
    IF NumberOr(attrs[l.target].debounce, 0) > 0
    THEN [st EXCEPT !.timer[l.target] = 1]
    ELSE validateLength(st, l.target)

\* The input listener without clearTimeout: every input leaves one more
\* timeout pending (two stand for any larger number).
lengthInputNoClear(st, l) ==
    IF l.ms > 0
    THEN [st EXCEPT !.timer[l.target] = IF @ < 2 THEN @ + 1 ELSE @]
    ELSE validateLength(st, l.target)

\* The input listener with one timer variable shared by all the fields.
lengthInputShared(st, l) ==
    IF l.ms > 0
    THEN [st EXCEPT !.timer = [e \in Elems |-> IF e = l.target THEN 1 ELSE 0]]
    ELSE validateLength(st, l.target)

\* The input listener of setupLengthValidation.  timer counts the pending
\* timeouts of the field: clearTimeout(timer) cancels the one there may be,
\* setTimeout starts one.
lengthInput(st, l) ==
    IF l.ms > 0
    THEN [st EXCEPT !.timer[l.target] = 1]
    ELSE validateLength(st, l.target)

\* The blur listener of setupRequiredValidation.
requiredBlur(st, f) ==
    LET isValid == Len(trim(st.dom[f].value)) > 0
    IN  [st EXCEPT !.dom[f].invalid = ~isValid, !.dom[f].valid = isValid]

\* The length check without its test of the attributes.
lengthCheckUnguarded(st, f, v) ==
    LET min == NumberOr(attrs[f].minlength, 0)
        max == NumberOr(attrs[f].maxlength, Infinity)
    IN  [st EXCEPT !.dom[f].invalid = (Len(v) < min \/ Len(v) > max)]

\* The length check of a blur: invalid is toggled to "length outside [min, max]".
lengthCheck(st, f, v) ==
    IF TruthyNum(attrs[f].minlength) \/ TruthyNum(attrs[f].maxlength)
    THEN LET min == NumberOr(attrs[f].minlength, 0)
             max == NumberOr(attrs[f].maxlength, Infinity)
         IN  [st EXCEPT !.dom[f].invalid = (Len(v) < min \/ Len(v) > max)]
    ELSE st

\* The blur listener of setupLengthValidation: checks the value the field holds.
lengthBlur(st, f) == lengthCheck(st, f, st.dom[f].value)

\* The transforms with the wrong case function under data-uppercase.
transformedCaseSlip(f, v0) ==
    LET v1 == IF Truthy(attrs[f].trim) THEN trim(v0) ELSE v0
        v2 == IF Truthy(attrs[f].uppercase) THEN toLowerCase(v1) ELSE v1
        v3 == IF Truthy(attrs[f].lowercase) THEN toLowerCase(v2) ELSE v2
        v4 == IF Truthy(attrs[f].sentenceCase)
              THEN toUpperCase(charAt0(v3)) \o toLowerCase(slice1(v3))
              ELSE v3
    IN  v4

\* The transforms with lowercase tested before uppercase.
transformedSwapped(f, v0) ==
    LET v1 == IF Truthy(attrs[f].trim) THEN trim(v0) ELSE v0
        v2 == IF Truthy(attrs[f].lowercase) THEN toLowerCase(v1) ELSE v1
        v3 == IF Truthy(attrs[f].uppercase) THEN toUpperCase(v2) ELSE v2
        v4 == IF Truthy(attrs[f].sentenceCase)
              THEN toUpperCase(charAt0(v3)) \o toLowerCase(slice1(v3))
              ELSE v3
    IN  v4

\* The transforms of a blur, in the order of the code.
transformed(f, v0) ==
    LET v1 == IF Truthy(attrs[f].trim) THEN trim(v0) ELSE v0
        v2 == IF Truthy(attrs[f].uppercase) THEN toUpperCase(v1) ELSE v1
        v3 == IF Truthy(attrs[f].lowercase) THEN toLowerCase(v2) ELSE v2
        v4 == IF Truthy(attrs[f].sentenceCase)
              THEN toUpperCase(charAt0(v3)) \o toLowerCase(slice1(v3))
              ELSE v3
    IN  v4

\* The blur listener of setupTextTransformation.
transformBlur(st, f) == [st EXCEPT !.dom[f].value = transformed(f, @)]

\* The one blur listener of the fetch variant: transforms, then the length
\* check of the transformed value.
inlineBlur(st, f) ==
    LET v == transformed(f, st.dom[f].value)
    IN  lengthCheck([st EXCEPT !.dom[f].value = v], f, v)

\* formatLive of a phone field.
formatLive(st, f, o) ==
    [st EXCEPT !.dom[f].value = formatted(digitsOf(@), o)]

\* validateOnBlur of a phone field.
validateOnBlur(st, f, o) ==
    LET digits == digitsOf(st.dom[f].value)
        parsed == parsePhoneNumberFromString(digits, o)
        Message == "Please enter a valid phone number"
    IN  IF parsed = "valid"
        THEN [st EXCEPT !.dom[f].valid = TRUE, !.dom[f].invalid = FALSE,
                        !.dom[f].value = formatted(digits, o),
                        !.dom[f].validity = ""]
        ELSE [st EXCEPT !.dom[f].valid = FALSE, !.dom[f].invalid = TRUE,
                        !.dom[f].validity = Message]

\* toggle with the negation dropped.
toggleSame(st, l) ==
    IF l.prop = "disabled"
    THEN [st EXCEPT !.dom[l.target].disabled = st.dom[l.ref].checked]
    ELSE [st EXCEPT !.dom[l.target].readOnly = st.dom[l.ref].checked]

\* toggle of data-disabled-if / data-readonly-if.
toggle(st, l) ==
    IF l.prop = "disabled"
    THEN [st EXCEPT !.dom[l.target].disabled = ~st.dom[l.ref].checked]
    ELSE [st EXCEPT !.dom[l.target].readOnly = ~st.dom[l.ref].checked]

\* update of data-show-if.
update(st, l) ==
    [st EXCEPT !.dom[l.target].display =
        IF st.dom[l.ref].value = l.val THEN "" ELSE "none"]

\* One listener called.
call(st, l, o) ==
    CASE l.kind = "required"       -> requiredBlur(st, l.target)
      [] l.kind = "lengthInput"    -> lengthInput(st, l)
      [] l.kind = "lengthBlur"     -> lengthBlur(st, l.target)
      [] l.kind = "transformBlur"  -> transformBlur(st, l.target)
      [] l.kind = "inlineBlur"     -> inlineBlur(st, l.target)
      [] l.kind = "formatLive"     -> formatLive(st, l.target, o)
      [] l.kind = "validateOnBlur" -> validateOnBlur(st, l.target, o)
      [] l.kind = "toggle"         -> toggle(st, l)
      [] l.kind = "update"         -> update(st, l)

\* dispatchEvent: the listeners of one event on one element, in the order
\* they were added.
RECURSIVE callAll(_, _, _)
callAll(st, ls, o) ==
    IF ls = <<>> THEN st ELSE callAll(call(st, Head(ls), o), Tail(ls), o)

dispatch(st, e, ev, o) == callAll(st, st.listeners[e][ev], o)

\* The library's possible answers, when a listener of the list asks it.
answersFor(ls) ==
    IF \E i \in 1..Len(ls) : ls[i].kind \in {"formatLive", "validateOnBlur"}
    THEN LibAnswers
    ELSE {[fmt |-> FALSE, parsed |-> "undefined"]}

\* ------------------------------------------------------------ country list

\* The country entries of the pages.
FR == [code |-> "FR", name |-> "France"]
US == [code |-> "US", name |-> "United States"]
CA == [code |-> "CA", name |-> "Canada"]
ZM == [code |-> "ZM", name |-> "Zambia"]
Fr == [code |-> "fr", name |-> "france"]
\* Entries with an empty code, and with an empty name.
NoCode == [code |-> "", name |-> "Chad"]
NoName == [code |-> "TD", name |-> ""]

Countries == {FR, US, CA, ZM, Fr}

\* (c.code || '').toUpperCase()
codeUpper(code) == IF code = "fr" THEN "FR" ELSE code

\* /United States/.test(c.name)
isUnitedStates(name) == name = "United States"

\* The place of a name in the locale's collation: letters first, and of two
\* names that differ in case only, the lower-case one first.
collationRank(name) ==
    CASE name = ""              -> 0
      [] name = "Canada"        -> 1
      [] name = "Chad"          -> 2
      [] name = "france"        -> 3
      [] name = "France"        -> 4
      [] name = "United States" -> 5
      [] name = "Zambia"        -> 6

\* The comparison with its operands exchanged.
localeCompareReversed(a, b) == collationRank(b) - collationRank(a)

\* a.name.localeCompare(b.name): negative, zero or positive.
localeCompare(a, b) == collationRank(a) - collationRank(b)

\* countries.findIndex(isUS), 1-based; 0 when there is none (-1 in the code).
RECURSIVE findIndexFrom(_, _)
findIndexFrom(cs, i) ==
    IF i > Len(cs) THEN 0
    ELSE IF codeUpper(cs[i].code) = "US" \/ isUnitedStates(cs[i].name) THEN i
    ELSE findIndexFrom(cs, i + 1)

findUS(cs) == findIndexFrom(cs, 1)

\* countries.splice(usIdx, 1) then countries.unshift(usCountry).
moveToFront(cs, i) ==
    <<cs[i]>> \o SubSeq(cs, 1, i - 1) \o SubSeq(cs, i + 1, Len(cs))

\* Insert c into the sorted list s, after the entries that do not compare
\* greater (Array.prototype.sort is stable).
RECURSIVE insertSorted(_, _)
insertSorted(s, c) ==
    IF s = <<>> THEN <<c>>
    ELSE IF localeCompare(Head(s).name, c.name) <= 0
         THEN <<Head(s)>> \o insertSorted(Tail(s), c)
         ELSE <<c>> \o s

\* countries.sort((a, b) => a.name.localeCompare(b.name)): the whole array.
RECURSIVE sortByName(_)
sortByName(cs) ==
    IF cs = <<>> THEN <<>>
    ELSE insertSorted(sortByName(SubSeq(cs, 1, Len(cs) - 1)), cs[Len(cs)])

\* CountryListManager.sortCountries, and its inline copies: the US entry is
\* moved to the front, then the array is sorted.
sortCountries(cs) ==
    LET usIdx == findUS(cs)
        moved == IF usIdx > 0 THEN moveToFront(cs, usIdx) ELSE cs
    IN  sortByName(moved)

\* CountryListManager.createOption: the option's value, or none.
RECURSIVE optionsOf(_)
optionsOf(cs) ==
    IF cs = <<>> THEN <<>>
    ELSE (IF Head(cs).code = "" \/ Head(cs).name = "" THEN <<>> ELSE <<Head(cs).code>>)
         \o optionsOf(Tail(cs))

\* select.innerHTML = placeholder, then one option appended per entry.
populated(cs) == <<"">> \o optionsOf(cs)

\* The elements select[data-country-code] matches.
countrySelects ==
    {e \in Elems : attrs[e].type = "select" /\ HasAttr(attrs[e].countryCode)}

\* -------------------------------------------------------------- the binder

\* element.addEventListener(ev, l)
addEventListener(b, e, ev, l) == [b EXCEPT !.listeners[e][ev] = Append(@, l)]

\* An exception leaves the handler: nothing after it runs.
throw(b) == [b EXCEPT !.threw = TRUE]

\* FormFieldManager.setupRequiredValidation
setupRequiredValidation(b, f) ==
    IF Truthy(attrs[f].required)
    THEN addEventListener(b, f, "blur", Listener("required", f, f, "", <<>>, 0))
    ELSE b

\* setupCopyFrom with the test of src inverted: nothing is copied.
setupCopyFromInverted(b, f) ==
    IF Truthy(attrs[f].copyFrom)
    THEN LET src == querySelector(attrs[f].copyFrom)
         IN  IF src = Null THEN [b EXCEPT !.dom[f].value = <<>>] ELSE b
    ELSE b

\* FormFieldManager.setupCopyFrom
setupCopyFrom(b, f) ==
    IF Truthy(attrs[f].copyFrom)
    THEN LET src == querySelector(attrs[f].copyFrom)
         IN  IF src # Null THEN [b EXCEPT !.dom[f].value = b.dom[src].value] ELSE b
    ELSE b

\* One round of the forEach of setupConditionalAttributes: data-disabled-if
\* or data-readonly-if.  With no element for the selector, ref is null and
\* ref.addEventListener throws.
setupToggle(b, f, sel, prop) ==
    IF b.threw \/ ~Truthy(sel) THEN b
    ELSE LET ref == querySelector(sel)
             l == Listener("toggle", f, ref, prop, <<>>, 0)
         IN  IF ref = Null THEN throw(b)
             ELSE toggle(addEventListener(b, ref, "change", l), l)

\* val of [sel, val] = showIf.split(':') when the text has no colon.
Undefined == <<NoAttr>>

\* The data-show-if part of setupConditionalAttributes.  The attribute is the
\* list of its texts between colons.
setupShowIf(b, f) ==
    IF b.threw \/ attrs[f].showIf = <<>> THEN b
    ELSE LET parts == attrs[f].showIf
             sel == parts[1]
             val == IF Len(parts) > 1 THEN parts[2] ELSE Undefined
             ref == querySelector(sel)
             l == Listener("update", f, ref, "", val, 0)
         IN  IF ref = Null THEN throw(b)
             ELSE update(addEventListener(b, ref, "change", l), l)

\* FormFieldManager.setupConditionalAttributes
setupConditionalAttributes(b, f) ==
    setupShowIf(
        setupToggle(
            setupToggle(b, f, attrs[f].disabledIf, "disabled"),
            f, attrs[f].readonlyIf, "readOnly"),
        f)

\* The input listener of setupLengthValidation, debounceMs read now.
setupLengthInput(b, f) ==
    addEventListener(b, f, "input",
        Listener("lengthInput", f, f, "", <<>>, NumberOr(attrs[f].debounce, 0)))

\* FormFieldManager.setupLengthValidation
setupLengthValidation(b, f) ==
    addEventListener(setupLengthInput(b, f), f, "blur",
        Listener("lengthBlur", f, f, "", <<>>, 0))

\* FormFieldManager.setupTextTransformation
setupTextTransformation(b, f) ==
    addEventListener(b, f, "blur", Listener("transformBlur", f, f, "", <<>>, 0))

\* The body of the forEach of FormFieldManager.initializeFields.
initializeField(b, f) ==
    LET b3 == setupConditionalAttributes(
                  setupCopyFrom(setupRequiredValidation(b, f), f), f)
    IN  IF b3.threw THEN b3
        ELSE setupTextTransformation(setupLengthValidation(b3, f), f)

\* The body of allFields.forEach of the fetch variant: the same rules, with
\* one blur listener for the transforms and the length check.
initializeFieldInline(b, f) ==
    LET b3 == setupConditionalAttributes(
                  setupCopyFrom(setupRequiredValidation(b, f), f), f)
    IN  IF b3.threw THEN b3
        ELSE addEventListener(setupLengthInput(b3, f), f, "blur",
                 Listener("inlineBlur", f, f, "", <<>>, 0))

\* fields.forEach(...), in document order, until one throws.
RECURSIVE initializeFields(_, _)
initializeFields(b, fields) ==
    IF fields = <<>> \/ b.threw THEN b
    ELSE initializeFields(
             IF variant = "fetch" THEN initializeFieldInline(b, Head(fields))
             ELSE initializeField(b, Head(fields)),
             Tail(fields))

\* Whether the selector list of allFields matches the element.
isField(e) ==
    LET a == attrs[e]
    IN  \/ HasAttr(a.validate) \/ HasAttr(a.trim) \/ HasAttr(a.uppercase)
        \/ HasAttr(a.lowercase) \/ HasAttr(a.sentenceCase) \/ HasAttr(a.copyFrom)
        \/ HasAttr(a.disabledIf) \/ HasAttr(a.readonlyIf) \/ a.showIf # <<>>
        \/ TruthyNum(a.minlength) \/ TruthyNum(a.maxlength)
        \/ TruthyNum(a.debounce) \/ HasAttr(a.required)

\* document.querySelectorAll of the recognized attributes, in document order.
RECURSIVE fieldsOf(_)
fieldsOf(seq) ==
    IF seq = <<>> THEN <<>>
    ELSE (IF isField(Head(seq)) THEN <<Head(seq)>> ELSE <<>>) \o fieldsOf(Tail(seq))

allFields == fieldsOf(DocOrder)

\* input[data-validate="phone"][data-phone-country-ref]
isPhoneField(e) ==
    /\ attrs[e].type = "text"
    /\ attrs[e].validate = "phone"
    /\ HasAttr(attrs[e].phoneCountryRef)

RECURSIVE phoneFieldsOf(_)
phoneFieldsOf(seq) ==
    IF seq = <<>> THEN <<>>
    ELSE (IF isPhoneField(Head(seq)) THEN <<Head(seq)>> ELSE <<>>)
         \o phoneFieldsOf(Tail(seq))

\* PhoneNumberManager.setupPhoneField
setupPhoneField(b, f) ==
    LET countrySel == querySelector(attrs[f].phoneCountryRef)
        l == Listener("formatLive", f, countrySel, "", <<>>, 0)
        v == Listener("validateOnBlur", f, countrySel, "", <<>>, 0)
    IN  IF countrySel = Null THEN b
        ELSE addEventListener(
                 addEventListener(addEventListener(b, f, "input", l), f, "blur", v),
                 countrySel, "change", l)

RECURSIVE setupPhoneFields(_, _)
setupPhoneFields(b, fields) ==
    IF fields = <<>> THEN b
    ELSE setupPhoneFields(setupPhoneField(b, Head(fields)), Tail(fields))

\* PhoneNumberManager.initializePhoneFields, and section 3 of the fetch
\* variant (which runs only with the library loaded).
initializePhoneFields(b) ==
    IF "libphonenumber" \notin libs THEN b
    ELSE setupPhoneFields(b, phoneFieldsOf(DocOrder))

\* document.querySelector('form'): the first form of the page (0: no form).
\* Forms are numbered in document order.
firstForm == IF \E e \in Elems : attrs[e].form > 0 THEN 1 ELSE 0

\* DependencyManager.check / checkDependencies: nothing is missing.
checkDependencies ==
    CASE variant = "class" -> {"TomSelect", "libphonenumber"} \subseteq libs
      [] variant = "fetch" -> {"MultiStep", "TomSelect", "libphonenumber"} \subseteq libs
      [] variant = "retry" -> {"libphonenumber"} \subseteq libs

\* ------------------------------------------------- DOMContentLoaded handler

\* The page as the handler finds and leaves it.
Page ==
    [dom |-> dom, timer |-> timer, listeners |-> listeners, options |-> options,
     countryList |-> countryList, threw |-> FALSE]

Placeholder == ""

\* The hardcoded list of the fetch variant's catch block.
fallbackOptions == <<Placeholder, "US", "CA">>

\* The population without select.innerHTML = placeholder: the options are
\* appended to those the select holds.
RECURSIVE populateSelectsAppend(_, _, _, _)
populateSelectsAppend(b, selects, cs, o) ==
    IF selects = <<>> THEN b
    ELSE LET sel == Head(selects)
             b1 == [b EXCEPT !.options[sel] = @ \o optionsOf(cs)]
         IN  populateSelectsAppend(dispatch(b1, sel, "change", o), Tail(selects),
                                   cs, o)

\* countrySelects.forEach of the population: the options are replaced, then a
\* change event is dispatched on the select.
RECURSIVE populateSelects(_, _, _, _)
populateSelects(b, selects, cs, o) ==
    IF selects = <<>> THEN b
    ELSE LET sel == Head(selects)
             b1 == [b EXCEPT !.options[sel] = populated(cs)]
         IN  populateSelects(dispatch(b1, sel, "change", o), Tail(selects), cs, o)

RECURSIVE selectsOf(_)
selectsOf(seq) ==
    IF seq = <<>> THEN <<>>
    ELSE (IF Head(seq) \in countrySelects THEN <<Head(seq)>> ELSE <<>>)
         \o selectsOf(Tail(seq))

\* The population from window.countryList (class and retry variants): the
\* array is sorted in place, and a list that is no array is an error caught.
populateFromWindow(b, o) ==
    IF countrySelects = {} \/ b.countryList.kind # "array" THEN b
    ELSE LET sorted == sortCountries(b.countryList.items)
         IN  populateSelects([b EXCEPT !.countryList.items = sorted],
                             selectsOf(DocOrder), sorted, o)

\* What initializeCountryDropdowns returns.
populationSucceeds == countrySelects # {} /\ countryList.kind = "array"

\* A catch block that leaves the selects as they are.
populateFallbackNone(b, selects) == b

\* The catch block of the fetch variant.
RECURSIVE populateFallback(_, _)
populateFallback(b, selects) ==
    IF selects = <<>> THEN b
    ELSE populateFallback([b EXCEPT !.options[Head(selects)] = fallbackOptions],
                          Tail(selects))

\* How the fetch and the population after it can end: a response that is ok
\* and parses, one that is not (or a rejected fetch), or an exception part-way
\* through the population (new TomSelect throws, an entry has no name).
FetchOutcomes == {"ok", "notOk", "throws"}

\* The population of the fetch variant once the fetch has settled.  An
\* exception part-way leaves the first select populated when the catch block
\* runs.
populateFromFetch(b, ok, o) ==
    LET selects == selectsOf(DocOrder)
        sorted == sortCountries(b.countryList.items)
    IN  IF ok = "notOk" \/ b.countryList.kind # "array"
        THEN populateFallback(b, selects)
        ELSE IF ok = "throws"
        THEN populateFallback(populateSelects(b, <<Head(selects)>>, sorted, o),
                              selects)
        ELSE populateSelects(b, selects, sorted, o)

\* The handler with the phone fields bound before the other fields.
bindAllPhoneFirst(b) == initializeFields(initializePhoneFields(b), allFields)

\* The handler from "Initialize form fields" on: the fields, the phone
\* fields, the submit listener.
bindAll(b) ==
    LET b1 == initializeFields(b, allFields)
    IN  IF b1.threw THEN b1 ELSE initializePhoneFields(b1)

\* The handler's effects are written to the page.
Commit(b) ==
    /\ dom' = b.dom
    /\ timer' = b.timer
    /\ listeners' = b.listeners
    /\ options' = b.options
    /\ countryList' = b.countryList
    /\ submitForm' = IF b.threw THEN 0 ELSE firstForm
    /\ phase' = IF b.threw THEN "threw" ELSE "ready"

\* The library's possible answers during the population, to the change
\* listeners already on a country select.
startAnswers ==
    IF \E e \in countrySelects : answersFor(listeners[e].change) = LibAnswers
    THEN LibAnswers
    ELSE {[fmt |-> FALSE, parsed |-> "undefined"]}

NoEvent ==
    [ev |-> "none", el |-> Null, form |-> 0, pre |-> <<>>, prevented |-> FALSE,
     executed |-> <<>>]

\* DOMContentLoaded in form-functionality.js.
StartClass ==
    /\ phase = "loading"
    /\ variant = "class"
    /\ \E o \in startAnswers : Commit(bindAll(populateFromWindow(Page, o)))
    /\ UNCHANGED <<handlers, variant, libs, attrs, retry, last>>

\* No attempt yet, none pending.
NoRetry == [attempts |-> 0, succeeded |-> FALSE, delay |-> 0]

\* The timeouts with the test of success dropped.
nextDelayAlways(delay, success) ==
    CASE delay = 0    -> 1000
      [] delay = 1000 -> 2000
      [] OTHER        -> 0

\* The timeout armed after an attempt: 1000 ms after a failed first one,
\* 2000 ms after a failed second one (delay is that of the attempt made).
nextDelay(delay, success) ==
    CASE delay = 0 /\ ~success    -> 1000
      [] delay = 1000 /\ ~success -> 2000
      [] OTHER                    -> 0

\* An attempt has been made and its timeout armed.
attempted(success) ==
    [attempts |-> retry.attempts + 1,
     succeeded |-> retry.succeeded \/ success,
     delay |-> nextDelay(retry.delay, success)]

\* DOMContentLoaded in the retry variant: the first attempt, and the first
\* retry armed if it failed.
StartRetry ==
    /\ phase = "loading"
    /\ variant = "retry"
    /\ \E o \in startAnswers : Commit(bindAll(populateFromWindow(Page, o)))
    /\ retry' = attempted(populationSucceeds)
    /\ UNCHANGED <<handlers, variant, libs, attrs, last>>

\* A timeout of the retry variant fires: initializeCountryDropdowns again.
RetryFire ==
    /\ retry.delay > 0
    /\ \E o \in startAnswers :
           LET b == populateFromWindow(Page, o)
           IN  /\ dom' = b.dom
               /\ timer' = b.timer
               /\ options' = b.options
               /\ countryList' = b.countryList
    /\ retry' = attempted(populationSucceeds)
    /\ UNCHANGED <<handlers, variant, libs, attrs, listeners, submitForm, phase, last>>

\* Another script of the page sets window.countryList after DOMContentLoaded.
ListArrives(l) ==
    /\ phase # "loading"
    /\ countryList.kind # "array"
    /\ countryList' = [countryList EXCEPT !.kind = "array", !.items = l]
    /\ UNCHANGED <<handlers, variant, libs, attrs, dom, listeners, timer, submitForm,
                   options, retry, phase, last>>

\* DOMContentLoaded in the fetch variant with a dependency missing: the
\* handler returns.
StartFetchReturn ==
    /\ phase = "loading"
    /\ variant = "fetch"
    /\ ~checkDependencies
    /\ phase' = "returned"
    /\ UNCHANGED <<handlers, variant, libs, attrs, dom, listeners, timer, submitForm,
                   countryList, options, retry, last>>

\* The fetch variant binding the page before it awaits the fetch.
StartFetchAwaitBound ==
    /\ phase = "loading"
    /\ variant = "fetch"
    /\ checkDependencies
    /\ countrySelects # {}
    /\ countryList.preload
    /\ LET b == bindAll(Page)
       IN  /\ dom' = b.dom
           /\ timer' = b.timer
           /\ listeners' = b.listeners
           /\ submitForm' = firstForm
    /\ phase' = "fetching"
    /\ UNCHANGED <<handlers, variant, libs, attrs, countryList, options, retry, last>>

\* DOMContentLoaded in the fetch variant, up to the await of the fetch.
StartFetchAwait ==
    /\ phase = "loading"
    /\ variant = "fetch"
    /\ checkDependencies
    /\ countrySelects # {}
    /\ countryList.preload
    /\ phase' = "fetching"
    /\ UNCHANGED <<handlers, variant, libs, attrs, dom, listeners, timer, submitForm,
                   countryList, options, retry, last>>

\* DOMContentLoaded in the fetch variant when nothing is fetched: no country
\* select, or no preload link (the fallback list).
StartFetchSync ==
    /\ phase = "loading"
    /\ variant = "fetch"
    /\ checkDependencies
    /\ countrySelects = {} \/ ~countryList.preload
    /\ Commit(bindAll(populateFallback(Page, selectsOf(DocOrder))))
    /\ UNCHANGED <<handlers, variant, libs, attrs, retry, last>>

\* The fetch settles and the handler runs to its end; the outcome is kept in
\* last.
FetchSettled ==
    /\ phase = "fetching"
    /\ \E ok \in FetchOutcomes, o \in startAnswers :
           /\ Commit(bindAll(populateFromFetch(Page, ok, o)))
           /\ last' = [NoEvent EXCEPT !.ev = "fetch", !.pre = <<ok>>]
    /\ UNCHANGED <<handlers, variant, libs, attrs, retry>>

\* -------------------------------------------------------------- the events

St == [dom |-> dom, timer |-> timer, listeners |-> listeners]

\* The handler has run, or is waiting: the user can act on the page.
Interactive == phase # "loading"

\* The user can focus and edit the element.
editable(e) ==
    /\ ~dom[e].disabled
    /\ ~dom[e].readOnly
    /\ dom[e].display # "none"

\* What is kept of the last event: its type and target and, of an input or a
\* blur, the value the field held when its listeners were called.
Event(ev, e, pre) ==
    [ev |-> ev, el |-> e, form |-> 0, pre |-> pre, prevented |-> FALSE,
     executed |-> <<>>]

\* The user edits a text field to v: the input event.
InputEv(e, v) ==
    /\ Interactive
    /\ attrs[e].type = "text"
    /\ editable(e)
    /\ \E o \in answersFor(listeners[e].input) :
           LET st0 == [St EXCEPT !.dom[e].value = v, !.dom[e].dirty = TRUE]
               st == dispatch(st0, e, "input", o)
           IN  dom' = st.dom /\ timer' = st.timer
    /\ last' = Event("input", e, v)
    /\ UNCHANGED <<handlers, variant, libs, attrs, listeners, submitForm, countryList,
                   options, retry, phase>>

\* The change event of a text field: the browser dispatches it when an edit
\* is committed.
committed(st, e, o) ==
    IF st.dom[e].dirty
    THEN dispatch([st EXCEPT !.dom[e].dirty = FALSE], e, "change", o)
    ELSE st

\* The user commits an edit without leaving the field (the Enter key).
ChangeEv(e) ==
    /\ Interactive
    /\ attrs[e].type = "text"
    /\ editable(e)
    /\ dom[e].dirty
    /\ \E o \in answersFor(listeners[e].change) :
           LET st == committed(St, e, o)
           IN  dom' = st.dom /\ timer' = st.timer
    /\ last' = Event("change", e, <<>>)
    /\ UNCHANGED <<handlers, variant, libs, attrs, listeners, submitForm, countryList,
                   options, retry, phase>>

\* The field loses the focus: the change event of an edit not yet committed,
\* then the blur event.
BlurEv(e) ==
    /\ Interactive
    /\ attrs[e].type = "text"
    /\ editable(e)
    /\ \E o \in answersFor(listeners[e].blur \o listeners[e].change) :
           LET st1 == committed(St, e, o)
               st == dispatch(st1, e, "blur", o)
           IN  /\ dom' = st.dom
               /\ timer' = st.timer
               /\ last' = Event("blur", e, st1.dom[e].value)
    /\ UNCHANGED <<handlers, variant, libs, attrs, listeners, submitForm, countryList,
                   options, retry, phase>>

\* A click on a checkbox: checked flips, then its input and change events.
ClickEv(e) ==
    /\ Interactive
    /\ attrs[e].type = "checkbox"
    /\ ~dom[e].disabled
    /\ dom[e].display # "none"
    /\ \E o \in answersFor(listeners[e].input \o listeners[e].change) :
           LET st0 == [St EXCEPT !.dom[e].checked = ~@]
               st == dispatch(dispatch(st0, e, "input", o), e, "change", o)
           IN  dom' = st.dom /\ timer' = st.timer
    /\ last' = Event("change", e, <<>>)
    /\ UNCHANGED <<handlers, variant, libs, attrs, listeners, submitForm, countryList,
                   options, retry, phase>>

\* The debounce timer of a field fires: validateLength.
TimerFire(e) ==
    /\ timer[e] > 0
    /\ LET st == validateLength([St EXCEPT !.timer[e] = @ - 1], e)
       IN  dom' = st.dom /\ timer' = st.timer
    /\ last' = Event("timer", e, dom[e].value)
    /\ UNCHANGED <<handlers, variant, libs, attrs, listeners, submitForm, countryList,
                   options, retry, phase>>

\* A script changes or removes data-attributes of an element after the
\* binding: the element's dataset becomes a.
SetAttrs(e, a) ==
    /\ phase = "ready"
    /\ a # attrs[e]
    /\ attrs' = [attrs EXCEPT ![e] = a]
    /\ last' = Event("attr", e, <<>>)
    /\ UNCHANGED <<handlers, variant, libs, dom, listeners, timer, submitForm, countryList,
                   options, retry, phase>>

\* The forms of the page.
Forms == {attrs[e].form : e \in Elems} \ {0}

\* form.querySelectorAll('[data-required]')
requiredFields(form) ==
    {e \in Elems : attrs[e].form = form /\ HasAttr(attrs[e].required)}

\* The submit listener: every required field with nothing but white space
\* gets class invalid.
submitCheck(form) ==
    [e \in Elems |->
        IF e \in requiredFields(form) /\ trim(dom[e].value) = <<>>
        THEN [dom[e] EXCEPT !.invalid = TRUE]
        ELSE dom[e]]

\* A submit listener that cancels the default action only when the check
\* fails.
submitListenerWhenInvalid(form) ==
    [dom |-> submitCheck(form),
     prevented |-> \E e \in requiredFields(form) : trim(dom[e].value) = <<>>]

\* The submit listener: e.preventDefault(), then the check of the required
\* fields.
submitListener(form) == [dom |-> submitCheck(form), prevented |-> TRUE]

\* A submit event on a form: with the listener on it, the listener runs;
\* without, the browser submits.
SubmitEv(form) ==
    /\ Interactive
    /\ form \in Forms
    /\ LET r == IF submitForm = form THEN submitListener(form)
                ELSE [dom |-> dom, prevented |-> FALSE]
       IN  /\ dom' = r.dom
           /\ last' = [ev |-> "submit", el |-> Null, form |-> form, pre |-> <<>>,
                       prevented |-> r.prevented, executed |-> <<>>]
    /\ UNCHANGED <<handlers, variant, libs, attrs, listeners, timer, submitForm,
                   countryList, options, retry, phase>>

\* ------------------------------------------------------ forms controller

\* The action names of the pages and of the callers of registerHandler.
ActionNames == {"save", "1", ""}

\* What is registered under a name: nothing, a handler object with an
\* execute function (one of two), or one without.
Unregistered == "none"
HandlerObjects == {"h1", "h2", "noExecute"}

NoHandlers == [n \in ActionNames |-> Unregistered]

Hyphen == "-"
Underscore == "_"

\* The characters \w matches, and those [\s-_] matches.
isWordChar(c) == c \in {"a", "A", Digit, Underscore}

isSeparator(c) == c \in {Space, Hyphen, Underscore}

\* caseType.toLowerCase() of the attribute values of the pages.
caseTypeLower(t) ==
    CASE t = "Title" -> "title"
      [] t = "CAMEL" -> "camel"
      [] OTHER -> t

\* .replace(/^\w/, c => c.toUpperCase())
capitalizeFirst(s) ==
    IF s # <<>> /\ isWordChar(s[1]) THEN <<UpChar(s[1])>> \o Tail(s) ELSE s

\* .replace(/\b\w/g, c => c.toUpperCase()): every word character that starts
\* a word.
capitalizeWords(s) ==
    [i \in 1..Len(s) |->
        IF isWordChar(s[i]) /\ (i = 1 \/ ~isWordChar(s[i - 1]))
        THEN UpChar(s[i]) ELSE s[i]]

\* .replace(/[\s-_]+(.)?/g, (match, chr) => chr ? chr.toUpperCase() : ''):
\* each run of separators goes, and the character after it is upper-cased.
RECURSIVE dropSeparators(_)
dropSeparators(s) ==
    IF s # <<>> /\ isSeparator(s[1]) THEN dropSeparators(Tail(s)) ELSE s

RECURSIVE joinWords(_)
joinWords(s) ==
    IF s = <<>> THEN <<>>
    ELSE IF isSeparator(s[1])
    THEN LET rest == dropSeparators(s)
         IN  IF rest = <<>> THEN <<>>
             ELSE <<UpChar(rest[1])>> \o joinWords(Tail(rest))
    ELSE <<s[1]>> \o joinWords(Tail(s))

\* The camel case of applyTextCase.
camelCase(value) == joinWords(toLowerCase(value))

\* CustomFormsController.applyTextCase: the value the field is left with.
applyTextCase(caseType, value) ==
    IF ~Truthy(caseType) \/ value = <<>> THEN value
    ELSE LET k == caseTypeLower(caseType)
         IN  CASE k \in {"upper", "uppercase"} -> toUpperCase(value)
               [] k \in {"lower", "lowercase"} -> toLowerCase(value)
               [] k \in {"sentence", "capitalize"} ->
                      capitalizeFirst(toLowerCase(value))
               [] k \in {"title", "titlecase"} ->
                      capitalizeWords(toLowerCase(value))
               [] k \in {"camel", "camelcase"} -> camelCase(value)
               [] OTHER -> value

\* CustomFormsController.handleTextCase, the delegated listener of
\* [data-form-case] fields: the formatting is applied on input and on blur.
handleTextCase(e, eventType, value) ==
    IF HasAttr(attrs[e].formCase) /\ eventType \in {"input", "blur"}
    THEN applyTextCase(attrs[e].formCase, value)
    ELSE value

\* The timeout of init() expires: bindEvents() and initializeFields().
ControllerInit ==
    /\ variant = "controller"
    /\ phase = "loading"
    /\ phase' = "ready"
    /\ UNCHANGED <<handlers, variant, libs, attrs, dom, listeners, timer, submitForm,
                   countryList, options, retry, last>>

\* An input, blur, change or focus event on a field of the controller's page.
CaseEv(e, eventType, v) ==
    /\ variant = "controller"
    /\ phase = "ready"
    /\ dom' = [dom EXCEPT ![e].value = handleTextCase(e, eventType, v)]
    /\ last' = [ev |-> eventType, el |-> e, form |-> 0, pre |-> v,
                prevented |-> FALSE, executed |-> <<>>]
    /\ UNCHANGED <<handlers, variant, libs, attrs, listeners, timer, submitForm,
                   countryList, options, retry, phase>>

\* The user edits the field to v.
CaseInput(e, v) == CaseEv(e, "input", v)

\* The field gets or loses the focus, or an edit is committed.
CaseBlur(e) == CaseEv(e, "blur", dom[e].value)

CaseFocus(e) == CaseEv(e, "focus", dom[e].value)

CaseChange(e) == CaseEv(e, "change", dom[e].value)

\* $el.data('custom-action'): jQuery converts an attribute value that reads
\* as a number to that number, which is no string.
jqData(a) == IF a = "1" THEN "<number 1>" ELSE a

\* this.handlers.has(action): the names registered are strings.
hasHandler(action) == action \in ActionNames /\ handlers[action] # Unregistered

\* The element and its ancestors, innermost first.
RECURSIVE pathOf(_)
pathOf(t) == IF t = Null THEN <<>> ELSE <<t>> \o pathOf(attrs[t].parent)

\* The selector [data-custom-action] matches the element.
isCustomAction(e) == HasAttr(attrs[e].customAction)

\* The elements the delegated click listener is called for: those of the path
\* of the target that match the selector.
delegates(t) == SelectSeq(pathOf(t), isCustomAction)

\* CustomFormsController.handleCustomAction, the event being clicked on
\* target; r is what the event carries so far.
handleCustomAction(r, target) ==
    LET action == jqData(attrs[target].customAction)
    IN  IF ~Truthy(action) \/ ~hasHandler(action) THEN r
        ELSE [prevented |-> TRUE,
              executed |-> IF handlers[action] = "noExecute" THEN r.executed
                           ELSE Append(r.executed, handlers[action])]

\* The listener called n times for one event.
RECURSIVE handleTimes(_, _, _)
handleTimes(r, target, n) ==
    IF n = 0 THEN r ELSE handleTimes(handleCustomAction(r, target), target, n - 1)

\* A click on an element of the controller's page.
CustomClick(t) ==
    /\ variant = "controller"
    /\ phase = "ready"
    /\ LET r == handleTimes([prevented |-> FALSE, executed |-> <<>>], t,
                            Len(delegates(t)))
       IN  last' = [ev |-> "click", el |-> t, form |-> 0, pre |-> <<>>,
                    prevented |-> r.prevented, executed |-> r.executed]
    /\ UNCHANGED <<handlers, variant, libs, attrs, dom, listeners, timer,
                   submitForm, countryList, options, retry, phase>>

\* CustomFormsController.registerHandler(name, handler), called by another
\* script of the page.
RegisterHandler(name, h) ==
    /\ variant = "controller"
    /\ handlers' = [handlers EXCEPT ![name] = h]
    /\ last' = Event("register", Null, <<>>)
    /\ UNCHANGED <<variant, libs, attrs, dom, listeners, timer, submitForm,
                   countryList, options, retry, phase>>

\* ---------------------------------------------------------------- the pages

\* The page as it is parsed, before DOMContentLoaded.
Loaded(v, l, a, d, cl) ==
    /\ variant = v
    /\ libs = l
    /\ attrs = a
    /\ dom = d
    /\ listeners = [e \in Elems |-> NoListeners]
    /\ timer = [e \in Elems |-> 0]
    /\ submitForm = 0
    /\ countryList = cl
    /\ options = [e \in Elems |-> <<>>]
    /\ retry = NoRetry
    /\ phase = "loading"
    /\ last = NoEvent
    /\ handlers = NoHandlers

Variants == {"class", "fetch", "retry"}

AllLibs == {"MultiStep", "TomSelect", "libphonenumber"}

\* Every library loaded, or one of them missing.
LibSets == {AllLibs} \cup {AllLibs \ {x} : x \in AllLibs}

NoList == [kind |-> "undefined", items |-> <<>>, preload |-> FALSE]

\* What a selector attribute names: the other element, or nothing on the page.
Selectors(e) == {IF e = "e1" THEN "#e2" ELSE "#e1", "#missing"}

\* A field with at most one of the rules that name another element.
RuleFields(e) ==
    {Plain}
    \cup {[Plain EXCEPT !.copyFrom = s] : s \in Selectors(e)}
    \cup {[Plain EXCEPT !.disabledIf = s] : s \in Selectors(e)}
    \cup {[Plain EXCEPT !.readonlyIf = s] : s \in Selectors(e)}
    \cup {[Plain EXCEPT !.showIf = <<s, <<"a">>>>] : s \in Selectors(e)}

\* The pages of the life-cycle specification: e1 carries data-uppercase and
\* at most one rule naming another element; e2 comes after it in the
\* document, carries data-required (empty or not), may be a phone field and
\* may sit in a second form.
LifePages ==
    {[e \in Elems |->
        IF e = "e1"
        THEN [r EXCEPT !.uppercase = "true", !.form = 1]
        ELSE [Plain EXCEPT !.required = q2, !.form = f2,
                           !.validate = IF ph THEN "phone" ELSE NoAttr,
                           !.phoneCountryRef = IF ph THEN "#e1" ELSE NoAttr]] :
        r \in RuleFields("e1"), q2 \in {"", "true"}, f2 \in {1, 2}, ph \in BOOLEAN}

\* What the user types, into e2, in the life-cycle specification.
LifeValues == StringsUpTo({Space, "a", Digit}, 1)

Init ==
    \E v \in Variants, l \in LibSets, a \in LifePages :
        Loaded(v, l, a, [e \in Elems |-> [Fresh EXCEPT !.value = <<"a">>]], NoList)

Next ==
    \/ StartClass
    \/ StartRetry
    \/ StartFetchReturn
    \/ StartFetchSync
    \/ \E v \in LifeValues : InputEv("e2", v)
    \/ BlurEv("e2")
    \/ ChangeEv("e2")
    \/ \E f \in {1, 2} : SubmitEv(f)

Spec == Init /\ [][Next]_vars

\* The pages with one text field, e1, whose attributes are drawn from the
\* given sets; e2 is an element with no attribute, the country select a
\* phone field names.
TextPages(Req, Trim, Up, Low, Sen, Min, Max, Deb, Phone) ==
    {[e \in Elems |->
        IF e = "e1"
        THEN [Plain EXCEPT !.form = 1, !.required = q, !.trim = t,
                           !.uppercase = u, !.lowercase = lo,
                           !.sentenceCase = sc, !.minlength = mn,
                           !.maxlength = mx, !.debounce = db,
                           !.validate = IF ph THEN "phone" ELSE NoAttr,
                           !.phoneCountryRef = IF ph THEN "#e2" ELSE NoAttr]
        ELSE Plain] :
        q \in Req, t \in Trim, u \in Up, lo \in Low, sc \in Sen,
        mn \in Min, mx \in Max, db \in Deb, ph \in Phone}

FreshPage == [e \in Elems |-> Fresh]

\* The startup of the pages that have no country select.
Startup == StartClass \/ StartRetry \/ StartFetchSync

\* The user's events on the text field e1.
FieldEvents(Values) ==
    \/ \E v \in Values : InputEv("e1", v)
    \/ ChangeEv("e1")
    \/ BlurEv("e1")

\* Input pages: data-maxlength, with or without a debounce delay, on a text
\* or phone field.
InputPages ==
    TextPages({NoAttr}, {NoAttr}, {NoAttr}, {NoAttr}, {NoAttr}, {NoNum},
              {NoNum} \cup 0..MaxN, {NoNum, 0, 1}, BOOLEAN)

InputValues == StringsUpTo({"a", Digit}, MaxLen)

InitInput ==
    \E v \in Variants, a \in InputPages : Loaded(v, AllLibs, a, FreshPage, NoList)

NextInput ==
    \/ Startup
    \/ FieldEvents(InputValues)
    \/ TimerFire("e1")

SpecInput == InitInput /\ [][NextInput]_vars

\* Case pages: the four text transforms, each absent or set, data-uppercase
\* also present with an empty value.
CasePages ==
    TextPages({NoAttr}, {NoAttr, "true"}, {NoAttr, "", "true"}, {NoAttr, "true"},
              {NoAttr, "true"}, {NoNum}, {NoNum}, {NoNum}, {FALSE})

CaseValues == StringsUpTo({Space, "a", "A"}, MaxLen)

InitCase ==
    \E v \in Variants, a \in CasePages : Loaded(v, AllLibs, a, FreshPage, NoList)

NextCase ==
    \/ Startup
    \/ FieldEvents(CaseValues)

SpecCase == InitCase /\ [][NextCase]_vars

\* Validity pages: a data-required field (the attribute empty or not), with
\* or without length limits and data-trim.
ValidPages ==
    TextPages({"", "true"}, {NoAttr, "true"}, {NoAttr}, {NoAttr}, {NoAttr},
              {NoNum} \cup 1..MaxN, {NoNum} \cup 0..MaxN, {NoNum}, {FALSE})

ValidValues == StringsUpTo({Space, "a"}, MaxLen)

InitValid ==
    \E v \in Variants, a \in ValidPages : Loaded(v, AllLibs, a, FreshPage, NoList)

NextValid ==
    \/ Startup
    \/ FieldEvents(ValidValues)
    \/ SubmitEv(1)

SpecValid == InitValid /\ [][NextValid]_vars

\* Condition pages: e1 carries any of the rules that name another element,
\* all naming e2; e2 is a checkbox, or a text field with or without
\* data-lowercase.
CondPages ==
    {[e \in Elems |->
        IF e = "e1"
        THEN [Plain EXCEPT !.copyFrom = IF cf THEN "#e2" ELSE NoAttr,
                           !.disabledIf = IF di THEN "#e2" ELSE NoAttr,
                           !.readonlyIf = IF ro THEN "#e2" ELSE NoAttr,
                           !.showIf = IF sh THEN <<"#e2", <<"a">>>> ELSE <<>>]
        ELSE [Plain EXCEPT !.type = ty,
                           !.lowercase = IF ty = "text" THEN lo ELSE NoAttr]] :
        cf \in BOOLEAN, di \in BOOLEAN, ro \in BOOLEAN, sh \in BOOLEAN,
        ty \in {"text", "checkbox"}, lo \in {NoAttr, "true"}}

\* The referenced element as the page is parsed: a text with or without a
\* value, a checkbox checked or not.
CondDoms ==
    {[e \in Elems |->
        IF e = "e2" THEN [Fresh EXCEPT !.value = v, !.checked = c] ELSE Fresh] :
        v \in {<<>>, <<"a">>}, c \in BOOLEAN}

CondValues == StringsUpTo({"a", "A"}, MaxLen)

InitCond ==
    \E v \in Variants, a \in CondPages, d \in CondDoms :
        /\ a["e2"].type = "text" => ~d["e2"].checked
        /\ a["e2"].type = "checkbox" => d["e2"].value = <<>>
        /\ Loaded(v, AllLibs, a, d, NoList)

NextCond ==
    \/ Startup
    \/ \E e \in Elems, v \in CondValues : InputEv(e, v)
    \/ \E e \in Elems : ChangeEv(e)
    \/ \E e \in Elems : BlurEv(e)
    \/ ClickEv("e2")

SpecCond == InitCond /\ [][NextCond]_vars

\* Show-if pages: e1 carries data-show-if="#e2:a" or data-show-if="#e2:a:A",
\* and e2 is a plain text field holding "a" or nothing.
Colon == ":"

ShowPages ==
    {[e \in Elems |->
        IF e = "e1" THEN [Plain EXCEPT !.showIf = sh] ELSE Plain] :
        sh \in {<<"#e2", <<"a">>>>, <<"#e2", <<"a">>, <<"A">>>>}}

ShowValues == StringsUpTo({"a", Colon, "A"}, MaxLen + 1)

InitShow ==
    \E v \in Variants, a \in ShowPages, d \in CondDoms :
        /\ ~d["e2"].checked
        /\ Loaded(v, AllLibs, a, d, NoList)

NextShow ==
    \/ Startup
    \/ \E v \in ShowValues : InputEv("e2", v)
    \/ ChangeEv("e2")
    \/ BlurEv("e2")

SpecShow == InitShow /\ [][NextShow]_vars

\* Absence pages: e1 is a text or phone field that carries data-debounce="0"
\* (so that it is bound) and any of data-trim, data-maxlength and
\* data-required, or none; its markup may carry the classes valid and invalid.
AbsentPages ==
    TextPages({NoAttr, "true"}, {NoAttr, "true"}, {NoAttr}, {NoAttr}, {NoAttr},
              {NoNum}, {NoNum, 1}, {0}, BOOLEAN)

AbsentDoms ==
    {[e \in Elems |->
        IF e = "e1" THEN [Fresh EXCEPT !.valid = va, !.invalid = iv] ELSE Fresh] :
        va \in BOOLEAN, iv \in BOOLEAN}

AbsentValues == StringsUpTo({Space, "a"}, MaxLen)

InitAbsent ==
    \E v \in Variants, a \in AbsentPages, d \in AbsentDoms :
        Loaded(v, AllLibs, a, d, NoList)

NextAbsent ==
    \/ Startup
    \/ FieldEvents(AbsentValues)

SpecAbsent == InitAbsent /\ [][NextAbsent]_vars

\* Pair pages: e1 and e2 are two text fields with data-maxlength="1", each
\* with or without a debounce delay.
PairPages ==
    {[e \in Elems |->
        [Plain EXCEPT !.form = 1, !.maxlength = 1,
                      !.debounce = IF e = "e1" THEN d1 ELSE d2]] :
        d1 \in {NoNum, 1}, d2 \in {NoNum, 1}}

PairValues == StringsUpTo({"a"}, MaxLen)

InitPair ==
    \E v \in Variants, a \in PairPages : Loaded(v, AllLibs, a, FreshPage, NoList)

NextPair ==
    \/ Startup
    \/ \E e \in Elems, v \in PairValues : InputEv(e, v)
    \/ \E e \in Elems : TimerFire(e)

SpecPair == InitPair /\ [][NextPair]_vars

\* Controller pages: e1 carries data-form-case, with a supported case type in
\* any spelling, an unsupported one, or empty.
CaseTypes ==
    {"", "upper", "lower", "sentence", "title", "camel", "Title", "CAMEL",
     "capitalize", "other"}

FormsPages ==
    {[e \in Elems |-> IF e = "e1" THEN [Plain EXCEPT !.formCase = t] ELSE Plain] :
        t \in CaseTypes \cup {NoAttr}}

FormsValues == StringsUpTo({"a", "A", Space, Underscore}, MaxLen)

InitForms ==
    \E a \in FormsPages : Loaded("controller", {}, a, FreshPage, NoList)

NextForms ==
    \/ ControllerInit
    \/ \E v \in FormsValues : CaseInput("e1", v)
    \/ CaseBlur("e1")
    \/ CaseFocus("e1")
    \/ CaseChange("e1")

SpecForms == InitForms /\ [][NextForms]_vars

\* Phone pages: e1 is a phone field whose country reference names e2, with or
\* without data-required, data-trim, data-minlength and data-maxlength.
PhonePages ==
    TextPages({NoAttr, "true"}, {NoAttr, "true"}, {NoAttr}, {NoAttr}, {NoAttr},
              {NoNum, 2}, {NoNum, 1}, {NoNum}, {TRUE})

PhoneValues == StringsUpTo({Space, "a", Digit}, MaxLen)

InitPhone ==
    \E v \in Variants, a \in PhonePages : Loaded(v, AllLibs, a, FreshPage, NoList)

NextPhone ==
    \/ Startup
    \/ FieldEvents(PhoneValues)

SpecPhone == InitPhone /\ [][NextPhone]_vars

\* Attribute pages: e1 is bound with data-maxlength="1" and
\* data-uppercase="true", with or without data-debounce="1"; after the
\* binding a script may change or remove these three attributes.
AttrPages ==
    TextPages({NoAttr}, {NoAttr}, {"true"}, {NoAttr}, {NoAttr}, {NoNum}, {1},
              {NoNum, 1}, {FALSE})

AttrValues == StringsUpTo({"a"}, MaxLen)

\* The datasets a script can give e1.
AttrChanges ==
    {[attrs["e1"] EXCEPT !.maxlength = mx, !.debounce = db, !.uppercase = u] :
        mx \in {NoNum} \cup 1..MaxN, db \in {NoNum, 1}, u \in {NoAttr, "true"}}

InitAttr ==
    \E v \in Variants, a \in AttrPages : Loaded(v, AllLibs, a, FreshPage, NoList)

NextAttr ==
    \/ Startup
    \/ FieldEvents(AttrValues)
    \/ TimerFire("e1")
    \/ \E a \in AttrChanges : SetAttrs("e1", a)

SpecAttr == InitAttr /\ [][NextAttr]_vars

\* Country pages: e1 is a country select and e2 a required field in a form;
\* the external list is any list of distinct entries, or no array at all; the
\* fetch variant's page has the preload link or not; a library may be missing.
RECURSIVE ListsUpTo(_)
ListsUpTo(n) ==
    IF n = 0 THEN {<<>>}
    ELSE LET S == ListsUpTo(n - 1)
         IN  S \cup {Append(l, c) : l \in {t \in S : Len(t) = n - 1}, c \in Countries}

distinct(l) == \A i, j \in 1..Len(l) : i # j => l[i] # l[j]

CountryLists ==
    {[kind |-> "array", items |-> l, preload |-> pl] :
        l \in {t \in ListsUpTo(MaxCountries) : distinct(t)}, pl \in BOOLEAN}
    \cup {[kind |-> k, items |-> <<>>, preload |-> TRUE] : k \in {"undefined", "object"}}

SortPages ==
    {[e \in Elems |->
        IF e = "e1" THEN [Plain EXCEPT !.type = "select", !.countryCode = ""]
        ELSE [Plain EXCEPT !.form = 1, !.required = "true"]]}

InitSort ==
    \E v \in Variants, l \in LibSets, a \in SortPages, cl \in CountryLists :
        Loaded(v, l, a, FreshPage, cl)

\* The lists another script may set late.
LateLists == {t \in ListsUpTo(MaxCountries) : distinct(t) /\ Len(t) <= 2}

NextSort ==
    \/ StartClass
    \/ StartRetry
    \/ RetryFire
    \/ \E l \in LateLists : ListArrives(l)
    \/ StartFetchReturn
    \/ StartFetchSync
    \/ StartFetchAwait
    \/ FetchSettled

SpecSort == InitSort /\ [][NextSort]_vars

\* A timeout that is armed fires, and a fetch that is awaited settles (it is
\* not pending for ever).
SpecSortFair ==
    /\ SpecSort
    /\ WF_vars(RetryFire)
    /\ []<>(phase # "fetching")

\* Option pages: the pages of the sort, with lists whose entries may have an
\* empty code or an empty name, and a select whose markup holds no option, or
\* the placeholder and US already.
OptionCountries == {US, CA, ZM, NoCode, NoName}

RECURSIVE OptionListsUpTo(_)
OptionListsUpTo(n) ==
    IF n = 0 THEN {<<>>}
    ELSE LET S == OptionListsUpTo(n - 1)
         IN  S \cup {Append(l, c) : l \in {t \in S : Len(t) = n - 1},
                                   c \in OptionCountries}

OptionLists ==
    {[kind |-> "array", items |-> l, preload |-> TRUE] :
        l \in {t \in OptionListsUpTo(MaxCountries) : distinct(t)}}
    \cup {[kind |-> "undefined", items |-> <<>>, preload |-> pl] : pl \in BOOLEAN}

MarkupOptions == {<<>>, <<Placeholder, "US">>}

InitOptions ==
    \E v \in Variants, l \in {AllLibs, AllLibs \ {"MultiStep"}}, a \in SortPages,
       cl \in OptionLists, m \in MarkupOptions :
        /\ variant = v
        /\ libs = l
        /\ attrs = a
        /\ dom = FreshPage
        /\ listeners = [e \in Elems |-> NoListeners]
        /\ timer = [e \in Elems |-> 0]
        /\ submitForm = 0
        /\ countryList = cl
        /\ options = [e \in Elems |-> IF e \in countrySelects THEN m ELSE <<>>]
        /\ retry = NoRetry
        /\ phase = "loading"
        /\ last = NoEvent
        /\ handlers = NoHandlers

LateOptionLists == {t \in OptionListsUpTo(2) : distinct(t)}

NextOptions ==
    \/ StartClass
    \/ StartRetry
    \/ RetryFire
    \/ \E l \in LateOptionLists : ListArrives(l)
    \/ StartFetchReturn
    \/ StartFetchSync
    \/ StartFetchAwait
    \/ FetchSettled

SpecOptions == InitOptions /\ [][NextOptions]_vars

\* Action pages: e1 carries data-custom-action with a name, an empty one, or
\* not at all; e2 is an element inside e1 or beside it, with or without a
\* data-custom-action of its own.
ActionPages ==
    {[e \in Elems |->
        IF e = "e1" THEN [Plain EXCEPT !.type = "button", !.customAction = a1]
        ELSE [Plain EXCEPT !.type = "button", !.customAction = a2,
                           !.parent = pa]] :
        a1 \in ActionNames \cup {NoAttr}, a2 \in {NoAttr, "save"},
        pa \in {Null, "e1"}}

InitAction ==
    \E a \in ActionPages : Loaded("controller", {}, a, FreshPage, NoList)

NextAction ==
    \/ ControllerInit
    \/ \E t \in Elems : CustomClick(t)
    \/ \E n \in ActionNames, h \in HandlerObjects : RegisterHandler(n, h)

SpecAction == InitAction /\ [][NextAction]_vars

\* ------------------------------------------------------------------ claims

\* The DOMContentLoaded handler has come to its end, one way or another.
Started == phase \in {"ready", "threw", "returned"}

\* The field has the input and blur listeners of the binder.
Bound(f) ==
    /\ \E i \in 1..Len(listeners[f].input) : listeners[f].input[i].kind = "lengthInput"
    /\ \E i \in 1..Len(listeners[f].blur) :
           listeners[f].blur[i].kind \in {"transformBlur", "inlineBlur"}

\* The phone field has its listeners.
PhoneBound(f) ==
    \E i \in 1..Len(listeners[f].blur) : listeners[f].blur[i].kind = "validateOnBlur"

\* A rule of the field names an element that is not on the page.
NamesMissing(f) ==
    \/ Truthy(attrs[f].disabledIf) /\ querySelector(attrs[f].disabledIf) = Null
    \/ Truthy(attrs[f].readonlyIf) /\ querySelector(attrs[f].readonlyIf) = Null
    \/ Truthy(attrs[f].copyFrom) /\ querySelector(attrs[f].copyFrom) = Null
    \/ attrs[f].showIf # <<>> /\ querySelector(attrs[f].showIf[1]) = Null

\* Everything the handler attaches is attached: the listeners of every field,
\* of every phone field whose country select exists (with the library loaded),
\* and the submit listener on the first form.
AllAttached ==
    /\ \A f \in Elems : isField(f) => Bound(f)
    /\ \A f \in Elems :
           (/\ isPhoneField(f)
            /\ "libphonenumber" \in libs
            /\ querySelector(attrs[f].phoneCountryRef) # Null) => PhoneBound(f)
    /\ submitForm = firstForm

\* The value is empty once trimmed.
Blank(e) == trim(dom[e].value) = <<>>

\* C1: a submit event on a form, any form of the page and in every variant,
\* that holds a data-required field whose trimmed value is empty has its
\* default action prevented, and that field carries class invalid afterwards.
C1_EmptyRequiredBlocksSubmit ==
    (last.ev = "submit" /\ \E e \in requiredFields(last.form) : Blank(e))
        => /\ last.prevented
           /\ \A e \in requiredFields(last.form) : Blank(e) => dom[e].invalid

\* C6: when a rule names a selector that matches nothing, the handler does not
\* throw and everything else is attached: the other listeners of that field,
\* those of the later fields and of the phone fields, and the submit listener.
C6_MissingSelectorIsSkipped ==
    (/\ phase \in {"ready", "threw"}
     /\ \E f \in Elems : NamesMissing(f))
        => phase = "ready" /\ AllAttached

\* C8: with a dependency library missing at startup (and every selector
\* naming an element), the handler still attaches the field listeners and
\* the submit listener.
C8_MissingLibrarySkipsOnlyItsFeature ==
    (/\ Started
     /\ libs # AllLibs
     /\ \A f \in Elems : ~NamesMissing(f))
        => /\ \A f \in Elems : isField(f) => Bound(f)
           /\ submitForm = firstForm

\* The blur listener of data-required is on the field.
RequiredBound(f) ==
    \E i \in 1..Len(listeners[f].blur) : listeners[f].blur[i].kind = "required"

\* The element a data-show-if attribute names.
showIfRef(f) == querySelector(attrs[f].showIf[1])

\* The update listener of the field's data-show-if is on the element it names.
ShowIfBound(f) ==
    /\ attrs[f].showIf # <<>>
    /\ showIfRef(f) # Null
    /\ \E i \in 1..Len(listeners[showIfRef(f)].change) :
           LET l == listeners[showIfRef(f)].change[i]
           IN  l.kind = "update" /\ l.target = f

\* C2: a field with data-show-if="#ref:X" is visible exactly when the value
\* of #ref equals X.  Stated for the states in which no edit of #ref waits
\* for its change event: the states in which every change has been announced.
C2_ShowIfTracksValue ==
    \A f \in Elems :
        (ShowIfBound(f) /\ ~dom[showIfRef(f)].dirty)
            => (dom[f].display # "none"
                    <=> dom[showIfRef(f)].value = attrs[f].showIf[2])

\* C3: once an input event on a field with data-maxlength=N has been handled
\* (its input listeners have run and no debounce timer is pending), the
\* value is at most N long.
C3_MaxLengthAfterInput ==
    \A e \in Elems :
        (/\ last.el = e
         /\ last.ev \in {"input", "timer"}
         /\ timer[e] = 0
         /\ Bound(e)
         /\ TruthyNum(attrs[e].maxlength))
            => Len(dom[e].value) <= attrs[e].maxlength

\* C4: when the country list has an entry with code US, the options of every
\* populated country select start, after the placeholder, with US.
C4_USFirst ==
    \A e \in countrySelects :
        (/\ options[e] # <<>>
         /\ \E i \in 1..Len(countryList.items) : countryList.items[i].code = "US")
            => Len(options[e]) > 1 /\ options[e][2] = "US"

UppercaseOnly(e) ==
    /\ Bound(e)
    /\ ~PhoneBound(e)
    /\ Truthy(attrs[e].uppercase)
    /\ ~Truthy(attrs[e].lowercase)
    /\ ~Truthy(attrs[e].sentenceCase)

C7_RequiredBlur ==
    \A e \in Elems :
        (last.ev = "blur" /\ last.el = e /\ RequiredBound(e))
            => /\ dom[e].invalid <=> Blank(e)
               /\ dom[e].valid <=> ~Blank(e)

\* C9: once bound, and so after every change event of the checkbox, a field
\* with data-disabled-if has disabled, and one with data-readonly-if has
\* readOnly, equal to the negation of the checkbox's checked.
C9_ToggleFollowsCheckbox ==
    \A f \in Elems :
        phase = "ready" =>
            /\ Truthy(attrs[f].disabledIf)
                   => dom[f].disabled = ~dom[querySelector(attrs[f].disabledIf)].checked
            /\ Truthy(attrs[f].readonlyIf)
                   => dom[f].readOnly = ~dom[querySelector(attrs[f].readonlyIf)].checked

\* A click has checked the box, and the field that was disabled and read-only
\* at bind time is neither.
C9_Witness ==
    /\ last.ev = "change"
    /\ last.el = "e2"
    /\ attrs["e2"].type = "checkbox"
    /\ Truthy(attrs["e1"].disabledIf)
    /\ Truthy(attrs["e1"].readonlyIf)
    /\ dom["e2"].checked
    /\ ~dom["e1"].disabled
    /\ ~dom["e1"].readOnly

\* The field copies from an element of the page.
CopiesFrom(f, src) ==
    /\ Truthy(attrs[f].copyFrom)
    /\ src = querySelector(attrs[f].copyFrom)
    /\ src # Null

\* C10: a field with data-copy-from holds the referenced element's value when
\* the binding is done, and no event on the referenced element (an edit, a
\* change, a blur, a click) changes the field's value afterwards.
C10_CopyFromOnce ==
    /\ [](\A f, src \in Elems :
            (phase = "ready" /\ last.ev = "none" /\ CopiesFrom(f, src))
                => dom[f].value = dom[src].value)
    /\ [][\A f, src \in Elems :
            (phase = "ready" /\ CopiesFrom(f, src) /\ src # f /\ last'.el = src)
                => dom'[f].value = dom[f].value]_vars

\* The field still holds the value copied at bind time after the referenced
\* element has been edited to another one.
C10_Witness ==
    /\ phase = "ready"
    /\ CopiesFrom("e1", "e2")
    /\ last.ev = "blur"
    /\ last.el = "e2"
    /\ dom["e1"].value = <<"a">>
    /\ dom["e2"].value = <<"A", "A">>

\* The limits as the claim reads them: a missing min is 0, a missing max is
\* unbounded.
minOf(e) == IF attrs[e].minlength = NoNum THEN 0 ELSE attrs[e].minlength
maxOf(e) == IF attrs[e].maxlength = NoNum THEN Infinity ELSE attrs[e].maxlength

\* C11: after a blur of a bound field with data-minlength and/or
\* data-maxlength (neither of them "0"), the field carries invalid exactly
\* when the length of the value it holds after the blur is below min or
\* above max.
C11_LengthBlurOfFinalValue ==
    \A e \in Elems :
        (/\ last.ev = "blur" /\ last.el = e
         /\ Bound(e) /\ ~PhoneBound(e)
         /\ (TruthyNum(attrs[e].minlength) \/ TruthyNum(attrs[e].maxlength))
         /\ attrs[e].minlength # 0 /\ attrs[e].maxlength # 0)
            => (dom[e].invalid <=>
                    (Len(dom[e].value) < minOf(e) \/ Len(dom[e].value) > maxOf(e)))

\* The value before the blur, trimmed when data-trim is set.
trimmedPre(e) == IF Truthy(attrs[e].trim) THEN trim(last.pre) ELSE last.pre

\* C12: after a blur of a bound text field its value is
\* sentenceCase?(lowercase?(uppercase?(trim?(v)))) of the value v it held
\* before, each step taken only when its attribute is set (not empty): with
\* data-uppercase and data-lowercase the field ends lower-cased, and with
\* data-sentence-case too it ends with only its first character in upper case.
C12_TransformOrder ==
    \A e \in Elems :
        (last.ev = "blur" /\ last.el = e /\ Bound(e) /\ ~PhoneBound(e))
            => LET t == trimmedPre(e)
                   u == IF Truthy(attrs[e].uppercase) THEN toUpperCase(t) ELSE t
                   l == IF Truthy(attrs[e].lowercase) THEN toLowerCase(u) ELSE u
                   first == IF l = <<>> THEN <<>> ELSE <<UpChar(l[1])>>
                   rest == [i \in 1..(Len(l) - 1) |-> LowChar(l[i + 1])]
               IN  /\ dom[e].value =
                          IF Truthy(attrs[e].sentenceCase) THEN first \o rest ELSE l
                   /\ (/\ Truthy(attrs[e].uppercase) /\ Truthy(attrs[e].lowercase)
                       /\ ~Truthy(attrs[e].sentenceCase))
                          => dom[e].value = toLowerCase(t)
                   /\ (/\ Truthy(attrs[e].uppercase) /\ Truthy(attrs[e].lowercase)
                       /\ Truthy(attrs[e].sentenceCase) /\ t # <<>>)
                          => /\ dom[e].value[1] = UpChar(t[1])
                             /\ \A i \in 2..Len(t) : dom[e].value[i] = LowChar(t[i])

\* A blur of a field with data-uppercase and data-lowercase has turned "aA"
\* into "aa".
C12_Witness ==
    /\ last.ev = "blur"
    /\ last.el = "e1"
    /\ Bound("e1")
    /\ Truthy(attrs["e1"].uppercase)
    /\ Truthy(attrs["e1"].lowercase)
    /\ ~Truthy(attrs["e1"].sentenceCase)
    /\ last.pre = <<"a", "A">>
    /\ dom["e1"].value = <<"a", "a">>

\* The field's input listener was bound with a debounce delay above 0.
Debounced(e) ==
    \E i \in 1..Len(listeners[e].input) :
        listeners[e].input[i].kind = "lengthInput" /\ listeners[e].input[i].ms > 0

\* C13: for a debounced field (no phone field), however many input events
\* arrive before the delay has elapsed, at most one run of the truncation is
\* pending; an input event truncates nothing and leaves exactly one run
\* pending; and when the delay has elapsed the truncation has run and none
\* is pending.
C13_DebounceCoalesces ==
    \A e \in Elems :
        (Debounced(e) /\ ~PhoneBound(e))
            => /\ timer[e] <= 1
               /\ (last.ev = "input" /\ last.el = e)
                      => timer[e] = 1 /\ dom[e].value = last.pre
               /\ (last.ev = "timer" /\ last.el = e)
                      => /\ timer[e] = 0
                         /\ dom[e].value =
                                IF /\ TruthyNum(attrs[e].maxlength)
                                   /\ Len(last.pre) > attrs[e].maxlength
                                THEN slice0(last.pre, attrs[e].maxlength)
                                ELSE last.pre

\* The delay has elapsed after a burst that left the field longer than its
\* data-maxlength, and the value has been cut to it.
C13_Witness ==
    /\ Debounced("e1")
    /\ ~PhoneBound("e1")
    /\ last.ev = "timer"
    /\ last.el = "e1"
    /\ attrs["e1"].maxlength = 1
    /\ Len(last.pre) = 2
    /\ Len(dom["e1"].value) = 1
    /\ timer["e1"] = 0

\* C14: the retry variant attempts the population at most three times, the
\* second attempt 1000 ms after a failed first and the third 2000 ms after a
\* failed second; an attempt after the first is made only when none before
\* it succeeded; and in the end no attempt is pending.
C14_RetriesAreBounded ==
    /\ [](/\ retry.attempts <= 3
          /\ retry.delay \in {0, 1000, 2000}
          /\ retry.delay = 1000 => retry.attempts = 1 /\ ~retry.succeeded
          /\ retry.delay = 2000 => retry.attempts = 2 /\ ~retry.succeeded
          /\ variant # "retry" => retry = NoRetry)
    /\ [][(retry'.attempts > retry.attempts /\ retry.attempts >= 1)
              => ~retry.succeeded]_vars
    /\ <>[](retry.delay = 0)

\* The third attempt has been made, after a list arrived too late for the
\* second, and it succeeded.
C14_Witness ==
    /\ variant = "retry"
    /\ retry.attempts = 3
    /\ retry.succeeded
    /\ retry.delay = 0
    /\ options["e1"] # <<>>

\* The fetch variant's population cannot use a fetched list: no preload
\* link, a fetch that failed, a body that is no array, or an exception
\* part-way.
FetchUnusable ==
    \/ ~countryList.preload
    \/ last.ev = "fetch" /\ last.pre # <<"ok">>
    \/ last.ev = "fetch" /\ countryList.kind # "array"

\* C15: in the fetch variant, once the handler (past its dependency check)
\* has come to its end without a usable fetched list, every country select
\* holds exactly the placeholder, US and CA, and the field listeners and the
\* submit listener are attached.
C15_FallbackOptions ==
    (/\ variant = "fetch" /\ checkDependencies
     /\ Started /\ countrySelects # {} /\ FetchUnusable)
        => /\ \A e \in countrySelects :
                  Len(options[e]) = 3 /\ options[e] = <<Placeholder, "US", "CA">>
           /\ phase = "ready"
           /\ AllAttached

\* The population threw part-way over a list of three countries; the select
\* holds the fallback and the required field and the form are bound.
C15_Witness ==
    /\ variant = "fetch"
    /\ last.ev = "fetch"
    /\ last.pre = <<"throws">>
    /\ Len(countryList.items) = 3
    /\ options["e1"] = <<Placeholder, "US", "CA">>
    /\ RequiredBound("e2")
    /\ submitForm = 1

\* No listener of the script is on the page.
NothingAttached ==
    /\ \A e \in Elems : listeners[e] = NoListeners
    /\ submitForm = 0

\* C16: in the fetch variant, while the fetch has not settled no field, phone
\* or submit listener is attached and no select holds an option; and once the
\* fetch is awaited it settles, one way or the other, and the listeners are
\* attached.
C16_BindingAfterFetch ==
    /\ []((variant = "fetch" /\ phase \in {"loading", "fetching"})
            => NothingAttached /\ \A e \in Elems : options[e] = <<>>)
    /\ (phase = "fetching") ~> (phase = "ready" /\ AllAttached)

\* The fetch has succeeded: the select holds a fetched list of three and the
\* required field and the form are bound.
C16_Witness ==
    /\ variant = "fetch"
    /\ last.ev = "fetch"
    /\ last.pre = <<"ok">>
    /\ Len(options["e1"]) = 4
    /\ RequiredBound("e2")
    /\ submitForm = 1

\* The place of a name in the alphabet when case is ignored.
foldedRank(name) ==
    CASE name \in {"Canada"}           -> 1
      [] name \in {"france", "France"} -> 2
      [] name \in {"United States"}    -> 3
      [] name \in {"Zambia"}           -> 4

\* The entry is the one the code takes for the United States.
isUSEntry(c) == codeUpper(c.code) = "US" \/ isUnitedStates(c.name)

\* The entries other than the US entry are in ascending order of their names,
\* case ignored.
AscendingButUS(l) ==
    \A i, j \in 1..Len(l) :
        (i < j /\ ~isUSEntry(l[i]) /\ ~isUSEntry(l[j]))
            => foldedRank(l[i].name) <= foldedRank(l[j].name)

\* Two lists hold the same entries, each as often.
Permutation(l, m) ==
    /\ Len(l) = Len(m)
    /\ \A c \in Countries :
           Cardinality({i \in 1..Len(l) : l[i] = c})
               = Cardinality({i \in 1..Len(m) : m[i] = c})

\* The class or retry variant has sorted window.countryList, in place, and
\* populated the select from it.
SortedInPlace ==
    /\ variant \in {"class", "retry"}
    /\ countryList.kind = "array"
    /\ options["e1"] # <<>>

\* C17: the list as sorted (by the class and retry variants, in place) has its
\* entries other than the US entry in ascending case-insensitive order of
\* name, sorting it again leaves it unchanged, and the step that sorts it
\* makes it a permutation of the list it was.
C17_SortedPermutation ==
    /\ [](SortedInPlace
            => /\ AscendingButUS(countryList.items)
               /\ sortCountries(countryList.items) = countryList.items)
    /\ [][(~SortedInPlace /\ SortedInPlace')
            => Permutation(countryList.items, countryList'.items)]_vars

\* A list of three has been sorted into Canada, United States, Zambia.
C17_Witness ==
    /\ SortedInPlace
    /\ countryList.items = <<CA, US, ZM>>
    /\ options["e1"] = <<Placeholder, "CA", "US", "ZM">>

\* C18 as claimed, on pages where e1 is bound with data-maxlength="1" and
\* data-uppercase="true": whatever is changed or removed afterwards, an input
\* event fully handled leaves at most one character, a blur leaves the value
\* it found in upper case, and input events are debounced as at bind time.
C18_AttributesReadOnce ==
    Bound("e1") =>
        /\ (last.ev \in {"input", "timer"} /\ last.el = "e1" /\ timer["e1"] = 0)
               => Len(dom["e1"].value) <= 1
        /\ (last.ev = "blur" /\ last.el = "e1")
               => dom["e1"].value = toUpperCase(last.pre)
        /\ (last.ev = "input" /\ last.el = "e1")
               => (timer["e1"] = 1 <=> Debounced("e1"))

\* C18: of the attributes of a bound field only data-debounce is read once,
\* at bind time: input events are debounced as the attribute said then,
\* whatever it says now.  data-maxlength and data-uppercase are read when an
\* event is handled: the value is cut to the data-maxlength the field has
\* then, and put in upper case on blur exactly when data-uppercase is set
\* then.
C18_OnlyDebounceReadOnce ==
    Bound("e1") =>
        /\ (last.ev = "input" /\ last.el = "e1")
               => (timer["e1"] = 1 <=> Debounced("e1"))
        /\ (last.ev \in {"input", "timer"} /\ last.el = "e1" /\ timer["e1"] = 0
            /\ TruthyNum(attrs["e1"].maxlength))
               => Len(dom["e1"].value) <= attrs["e1"].maxlength
        /\ (last.ev = "timer" /\ last.el = "e1"
            /\ ~TruthyNum(attrs["e1"].maxlength))
               => dom["e1"].value = last.pre
        /\ (last.ev = "blur" /\ last.el = "e1")
               => dom["e1"].value =
                      IF Truthy(attrs["e1"].uppercase) THEN toUpperCase(last.pre)
                      ELSE last.pre

\* data-debounce has been removed from a field bound with it, and its input
\* event is debounced all the same; data-maxlength has been removed too, and
\* the two characters typed are still there.
C18_Witness ==
    /\ Debounced("e1")
    /\ attrs["e1"].debounce = NoNum
    /\ attrs["e1"].maxlength = NoNum
    /\ last.ev = "input"
    /\ last.el = "e1"
    /\ timer["e1"] = 1
    /\ Len(dom["e1"].value) = 2

\* C19: a field is bound by the presence of its attribute, whatever the
\* value: once the page is bound, every field that carries data-required
\* (the fields a submit checks) has the blur listener of data-required, and
\* a blur of such a field without length limits marks it invalid exactly
\* when its trimmed value is empty.
C19_PresenceBinds ==
    phase = "ready" =>
        \A e \in Elems :
            HasAttr(attrs[e].required) =>
                /\ RequiredBound(e)
                /\ (/\ last.ev = "blur" /\ last.el = e
                    /\ ~TruthyNum(attrs[e].minlength)
                    /\ ~TruthyNum(attrs[e].maxlength))
                       => (dom[e].invalid <=> Blank(e))

\* The texts between colons put together again, colons between them.
RECURSIVE joined(_)
joined(parts) ==
    IF parts = <<>> THEN <<>>
    ELSE IF Len(parts) = 1 THEN Head(parts)
    ELSE Head(parts) \o <<Colon>> \o joined(Tail(parts))

\* C20: the literal of data-show-if="selector:value" is the whole text after
\* the first colon: with no edit of the referenced element pending, the field
\* is visible exactly when the element's value equals that text.
C20_ShowIfSplitsAtFirstColon ==
    \A f \in Elems :
        (ShowIfBound(f) /\ ~dom[showIfRef(f)].dirty)
            => (dom[f].display # "none"
                    <=> dom[showIfRef(f)].value = joined(Tail(attrs[f].showIf)))

\* The field carries none of the four transform attributes.
NoTransform(e) ==
    /\ ~HasAttr(attrs[e].trim) /\ ~HasAttr(attrs[e].uppercase)
    /\ ~HasAttr(attrs[e].lowercase) /\ ~HasAttr(attrs[e].sentenceCase)

\* The field carries none of data-required, data-minlength, data-maxlength.
NoValidation(e) ==
    /\ ~HasAttr(attrs[e].required)
    /\ ~TruthyNum(attrs[e].minlength) /\ ~TruthyNum(attrs[e].maxlength)

\* C21 as claimed: a blur of a bound non-phone field without transform
\* attributes leaves its value unchanged; an input event on a bound field
\* without data-maxlength leaves its value unchanged; a blur of a bound field
\* without data-required, data-minlength and data-maxlength leaves its
\* classes valid and invalid unchanged.
C21_AbsenceIsNoOp ==
    /\ [](\A e \in Elems :
            (Bound(e) /\ last.el = e) =>
                /\ (last.ev = "blur" /\ ~PhoneBound(e) /\ NoTransform(e))
                       => dom[e].value = last.pre
                /\ (last.ev = "input" /\ ~TruthyNum(attrs[e].maxlength))
                       => dom[e].value = last.pre)
    /\ [][\A e \in Elems :
            (Bound(e) /\ last'.ev = "blur" /\ last'.el = e /\ last' # last
             /\ NoValidation(e))
                => /\ dom'[e].valid = dom[e].valid
                   /\ dom'[e].invalid = dom[e].invalid]_vars

\* C21: on a bound field that is no phone field, a blur leaves the value
\* unchanged when the field has no transform attribute, an input event
\* leaves it unchanged when the field has no data-maxlength, and a blur
\* leaves the classes valid and invalid unchanged when the field has none of
\* data-required, data-minlength and data-maxlength.
C21_AbsenceIsNoOpNonPhone ==
    /\ [](\A e \in Elems :
            (Bound(e) /\ ~PhoneBound(e) /\ last.el = e) =>
                /\ (last.ev = "blur" /\ NoTransform(e))
                       => dom[e].value = last.pre
                /\ (last.ev = "input" /\ ~TruthyNum(attrs[e].maxlength))
                       => dom[e].value = last.pre)
    /\ [][\A e \in Elems :
            (Bound(e) /\ ~PhoneBound(e) /\ NoValidation(e)
             /\ last'.ev = "blur" /\ last'.el = e)
                => /\ dom'[e].valid = dom[e].valid
                   /\ dom'[e].invalid = dom[e].invalid]_vars

\* A blur has left " a" and the class invalid of the markup on a field with
\* none of the attributes.
C21_Witness ==
    /\ Bound("e1")
    /\ ~PhoneBound("e1")
    /\ NoTransform("e1")
    /\ NoValidation("e1")
    /\ last.ev = "blur"
    /\ last.el = "e1"
    /\ last.pre = <<Space, "a">>
    /\ dom["e1"].value = <<Space, "a">>
    /\ dom["e1"].invalid
    /\ ~dom["e1"].valid

\* C22: every field has at most one truncation pending, and an input event
\* on one field leaves the pending truncation and the value of every other
\* field as they were.
C22_TimersPerField ==
    /\ [](\A e \in Elems : timer[e] <= 1)
    /\ [][\A e \in Elems, f \in Elems :
            (e # f /\ last'.ev = "input" /\ last'.el = e)
                => timer'[f] = timer[f] /\ dom'[f] = dom[f]]_vars

\* An input event on e2 has started its timer while the timer of e1, whose
\* value is over-long, is still pending.
C22_Witness ==
    /\ Debounced("e1")
    /\ Debounced("e2")
    /\ last.ev = "input"
    /\ last.el = "e2"
    /\ timer["e1"] = 1
    /\ timer["e2"] = 1
    /\ dom["e1"].value = <<"a", "a">>

\* The listeners the class-based binder and the inline binder of the fetch
\* variant attach to a field of the page.
classListeners(e) ==
    initializeField([Page EXCEPT !.listeners = [f \in Elems |-> NoListeners]], e)
        .listeners[e]

inlineListeners(e) ==
    initializeFieldInline([Page EXCEPT !.listeners = [f \in Elems |-> NoListeners]], e)
        .listeners[e]

NoLibrary == [fmt |-> FALSE, parsed |-> "undefined"]

\* The value and the classes a blur leaves, the field having the blur
\* listeners ls.
afterBlur(e, ls) ==
    LET st == callAll(committed(St, e, NoLibrary), ls, NoLibrary)
    IN  <<st.dom[e].value, st.dom[e].valid, st.dom[e].invalid>>

\* C23: the two binders attach the same input and change listeners to a
\* field, and every blur of a bound field (no phone field) leaves the value
\* and the classes valid and invalid that the blur listeners of the
\* class-based binder leave, and those that the blur listeners of the inline
\* binder leave.
C23_BindersAgree ==
    /\ [](\A e \in Elems :
            Bound(e) => /\ classListeners(e).input = inlineListeners(e).input
                        /\ classListeners(e).change = inlineListeners(e).change)
    /\ [][\A e \in Elems :
            (last'.ev = "blur" /\ last'.el = e /\ Bound(e) /\ ~PhoneBound(e))
                => LET now == <<dom'[e].value, dom'[e].valid, dom'[e].invalid>>
                   IN  /\ now = afterBlur(e, classListeners(e).blur)
                       /\ now = afterBlur(e, inlineListeners(e).blur)]_vars

\* C24: every submit event on the form that has the submit listener has its
\* default action cancelled, whether or not a data-required field is empty.
C24_SubmitAlwaysPrevented ==
    (last.ev = "submit" /\ submitForm # 0 /\ last.form = submitForm)
        => last.prevented

\* A submit with every data-required field filled was cancelled.
C24_Witness ==
    /\ last.ev = "submit"
    /\ last.form = submitForm
    /\ requiredFields(last.form) # {}
    /\ \A e \in requiredFields(last.form) : ~Blank(e)
    /\ last.prevented

\* C25: after a blur or a submit event, no bound field carries the classes
\* valid and invalid together.
C25_ValidExcludesInvalid ==
    last.ev \in {"blur", "submit"}
        => \A e \in Elems : Bound(e) => ~(dom[e].valid /\ dom[e].invalid)

\* C26: after a submit event handled by the submit listener, a data-required
\* field of the form carries class invalid exactly when its trimmed value is
\* empty.
C26_SubmitRevalidates ==
    (last.ev = "submit" /\ submitForm # 0 /\ last.form = submitForm)
        => \A e \in requiredFields(last.form) : dom[e].invalid <=> Blank(e)

\* C27: once the debounce timer of a bound field (no phone field) with
\* data-maxlength has fired and none is pending, a value whose length is
\* within [min, max] is not flagged invalid, also when a blur was handled
\* while the timer was pending.
C27_TruncationClearsInvalid ==
    \A e \in Elems :
        (/\ last.ev = "timer" /\ last.el = e /\ timer[e] = 0
         /\ Bound(e) /\ ~PhoneBound(e) /\ Debounced(e)
         /\ TruthyNum(attrs[e].maxlength)
         /\ Len(dom[e].value) >= minOf(e) /\ Len(dom[e].value) <= maxOf(e))
            => ~dom[e].invalid

\* The case types applyTextCase supports, in any spelling.
Supported(e) ==
    /\ Truthy(attrs[e].formCase)
    /\ caseTypeLower(attrs[e].formCase) \in
           {"upper", "uppercase", "lower", "lowercase", "sentence", "capitalize",
            "title", "titlecase", "camel", "camelcase"}

\* C28: for every supported case type, a value the controller has formatted
\* (on an input or a blur event) is left as it is by the formatting, so that
\* a further blur or input event that does not edit the field leaves its
\* value unchanged.
C28_TextCaseIdempotent ==
    /\ [](\A e \in Elems :
            (Supported(e) /\ last.el = e /\ last.ev \in {"input", "blur"})
                => applyTextCase(attrs[e].formCase, dom[e].value) = dom[e].value)
    /\ [][\A e \in Elems :
            (/\ Supported(e) /\ last.el = e /\ last.ev \in {"input", "blur"}
             /\ last'.el = e /\ last'.ev \in {"input", "blur"}
             /\ last'.pre = dom[e].value)
                => dom'[e].value = dom[e].value]_vars

\* C29: after a blur of a bound phone field, whatever other blur listeners
\* the field has, it carries exactly one of the classes valid and invalid, and
\* its custom validity message is empty exactly when it carries valid.
C29_PhoneBlurConsistent ==
    \A e \in Elems :
        (last.ev = "blur" /\ last.el = e /\ PhoneBound(e))
            => /\ dom[e].valid # dom[e].invalid
               /\ dom[e].validity = "" <=> dom[e].valid

\* A phone field with data-required and data-minlength="2" was left holding
\* "1": not empty, too short, no valid phone number.
C29_Witness ==
    /\ last.ev = "blur"
    /\ last.el = "e1"
    /\ last.pre = <<Digit>>
    /\ PhoneBound("e1")
    /\ RequiredBound("e1")
    /\ attrs["e1"].minlength = 2
    /\ dom["e1"].invalid
    /\ ~dom["e1"].valid
    /\ dom["e1"].validity # ""

\* The entry has both a code and a name.
Complete(c) == c.code # "" /\ c.name # ""

\* The codes of the entries of a list, in its order.
codesOf(l) == [i \in 1..Len(l) |-> l[i].code]

\* The step is a population that succeeds: the handler of the class or retry
\* variant finding an array, a retry finding one, or the fetch variant's
\* fetch settling with an array and the population running to its end.
SuccessfulPopulation ==
    /\ countrySelects # {}
    /\ countryList.kind = "array"
    /\ \/ variant \in {"class", "retry"} /\ phase = "loading" /\ phase' # "loading"
       \/ variant = "retry" /\ retry'.attempts > retry.attempts
       \/ /\ variant = "fetch" /\ phase = "fetching" /\ phase' # "fetching"
          /\ last'.pre = <<"ok">>

\* C30: a successful population leaves every country select with the
\* placeholder first and then the codes of the entries of the sorted list
\* that have both a code and a name, in the order of that list, whatever
\* options the select held before; an entry with an empty code or an empty
\* name gives no option.
C30_OptionsOfCompleteEntries ==
    [][SuccessfulPopulation
        => \A e \in countrySelects :
               LET sorted == sortCountries(countryList.items)
                   kept == SelectSeq(sorted, Complete)
               IN  /\ options'[e] = <<Placeholder>> \o codesOf(kept)
                   /\ Len(options'[e])
                          = 1 + Cardinality({i \in 1..Len(sorted) : Complete(sorted[i])})
                   /\ \A i, j \in 1..Len(options'[e]) :
                          i # j => options'[e][i] # options'[e][j]]_vars

\* The retry variant has populated the select at its second attempt, from a
\* list that arrived late with an entry without a name and one without a
\* code: Canada is the only option after the placeholder.
C30_Witness ==
    /\ variant = "retry"
    /\ retry.attempts = 2
    /\ retry.succeeded
    /\ countryList.items = <<NoName, CA>>
    /\ options["e1"] = <<Placeholder, "CA">>

\* The data-custom-action element a click on t is a click on: t, or the
\* nearest element around it that carries the attribute.
clicked(t) == Head(delegates(t))

\* What the claim has a click on the element m do: the handler registered
\* under the element's action name, if any, is executed once.
expectedOf(m) ==
    LET name == attrs[m].customAction
        h == handlers[name]
    IN  IF h \in {Unregistered, "noExecute"} THEN <<>> ELSE <<h>>

\* C31: a click on a data-custom-action element, the controller having bound
\* its events, has its default action prevented exactly when a handler is
\* registered under the element's action name; the execute of the handler
\* registered last under that name, if it has one, is then called once, and
\* nothing is executed otherwise.
C31_ClickRunsRegisteredHandler ==
    (last.ev = "click" /\ delegates(last.el) # <<>>)
        => LET m == clicked(last.el)
           IN  /\ last.prevented <=> handlers[attrs[m].customAction] # Unregistered
               /\ last.executed = expectedOf(m)

====
